---- MODULE Spec2Model ----
(***************************************************************************)
(* Finance aggregation of the dashboard: the useFinanceData query function *)
(* (three backend tiers tried in order) and the useFinanceBreakdown query  *)
(* function of src/src/hooks/useFinanceData.ts.                            *)
(*                                                                         *)
(* Numbers are integers (money in whole units).  Texts are sequences of    *)
(* Unicode code points, so that toLowerCase() and includes() are computed  *)
(* and not assumed.  A JSON scalar is a tagged value (null, a number, or a  *)
(* string no number can be read from); a string-valued filter or column    *)
(* that is absent, null or empty is "" (all three are falsy).              *)
(***************************************************************************)
EXTENDS Integers, Sequences, FiniteSets, TLC

\* JSON scalars of a backend row.
Null == [kind |-> "null", n |-> 0]
Num(n) == [kind |-> "number", n |-> n]
\* A value no number can be read from (a non-numeric string).
NotANumber == [kind |-> "string", n |-> 0]

\* A text column: null, or a string of code points.
NoText == [kind |-> "null", chars |-> <<>>]
Text(chars) == [kind |-> "string", chars |-> chars]

\* An absent (falsy) string: a filter not set, a column that is null or empty.
Missing == ""

\* No error: the error member of a {data, error} response, nothing thrown.
NoError == ""

-----------------------------------------------------------------------------
(* Bounds of the model *)

\* Longest raw-record sequence a Tier3 fetch returns.
MaxRecs == 3

\* Longest row sequence a Tier1 query or a Tier2 RPC returns.
MaxRows == 2

\* Longest record sequence a breakdown fetch returns.
MaxBreakdownRecs == 2

-----------------------------------------------------------------------------
(* Texts: code points *)

\* "prodazh" (Cyrillic)
KwProdazh == <<1087, 1088, 1086, 1076, 1072, 1078>>
\* "sale"
KwSale == <<115, 97, 108, 101>>
\* "oplat" (Cyrillic)
KwOplat == <<1086, 1087, 1083, 1072, 1090>>
\* "payment"
KwPayment == <<112, 97, 121, 109, 101, 110, 116>>
\* "komiss" (Cyrillic)
KwKomiss == <<1082, 1086, 1084, 1080, 1089, 1089>>
\* "commission"
KwCommission == <<99, 111, 109, 109, 105, 115, 115, 105, 111, 110>>
\* "sbor" (Cyrillic)
KwSbor == <<1089, 1073, 1086, 1088>>
\* "fee"
KwFee == <<102, 101, 101>>
\* "dostavk" (Cyrillic)
KwDostavk == <<1076, 1086, 1089, 1090, 1072, 1074, 1082>>
\* "delivery"
KwDelivery == <<100, 101, 108, 105, 118, 101, 114, 121>>
\* "logistik" (Cyrillic)
KwLogistik == <<1083, 1086, 1075, 1080, 1089, 1090, 1080, 1082>>
\* "shipping"
KwShipping == <<115, 104, 105, 112, 112, 105, 110, 103>>
\* "vozvrat" (Cyrillic)
KwVozvrat == <<1074, 1086, 1079, 1074, 1088, 1072, 1090>>
\* "return"
KwReturn == <<114, 101, 116, 117, 114, 110>>
\* "otmen" (Cyrillic)
KwOtmen == <<1086, 1090, 1084, 1077, 1085>>
\* "cancel"
KwCancel == <<99, 97, 110, 99, 101, 108>>
\* "reklam" (Cyrillic)
KwReklam == <<1088, 1077, 1082, 1083, 1072, 1084>>
\* "ads"
KwAds == <<97, 100, 115>>
\* "prodvizh" (Cyrillic)
KwProdvizh == <<1087, 1088, 1086, 1076, 1074, 1080, 1078>>
\* "promotion"
KwPromotion == <<112, 114, 111, 109, 111, 116, 105, 111, 110>>
\* "uslug" (Cyrillic)
KwUslug == <<1091, 1089, 1083, 1091, 1075>>
\* "service"
KwService == <<115, 101, 114, 118, 105, 99, 101>>
\* "obsluzh" (Cyrillic)
KwObsluzh == <<1086, 1073, 1089, 1083, 1091, 1078>>
\* "processing"
KwProcessing == <<112, 114, 111, 99, 101, 115, 115, 105, 110, 103>>

\* The keyword lists of the six category blocks of the Tier3 loop.
SalesKeywords == {KwProdazh, KwSale, KwOplat, KwPayment}
CommissionKeywords == {KwKomiss, KwCommission, KwSbor, KwFee}
DeliveryKeywords == {KwDostavk, KwDelivery, KwLogistik, KwShipping}
ReturnKeywords == {KwVozvrat, KwReturn, KwOtmen, KwCancel}
AdsKeywords == {KwReklam, KwAds, KwProdvizh, KwPromotion}
ServiceKeywords == {KwUslug, KwService, KwObsluzh, KwProcessing}

\* The keywords the services block excludes (its inner if).
ServiceExcludedKeywords == {KwDostavk, KwDelivery}

\* The keywords the catch-all excludes.
CatchAllExcludedKeywords ==
    {KwProdazh, KwSale, KwKomiss, KwCommission, KwDostavk, KwDelivery,
     KwVozvrat, KwReturn, KwReklam, KwAds}

\* Operation type names the backend rows carry.
\* "Dostavka" (Cyrillic, capital D)
TxtDostavka == <<1044, 1086, 1089, 1090, 1072, 1074, 1082, 1072>>
\* "dostavka tovara" (Cyrillic)
TxtDostavkaTovara ==
    <<1076, 1086, 1089, 1090, 1072, 1074, 1082, 1072, 32,
      1090, 1086, 1074, 1072, 1088, 1072>>
\* "usluga dostavki" (Cyrillic)
TxtUslugaDostavki ==
    <<1091, 1089, 1083, 1091, 1075, 1072, 32,
      1076, 1086, 1089, 1090, 1072, 1074, 1082, 1080>>
\* "Service shipping"
TxtServiceShipping ==
    <<83, 101, 114, 118, 105, 99, 101, 32, 115, 104, 105, 112, 112, 105, 110, 103>>
\* "payment"
TxtPayment == <<112, 97, 121, 109, 101, 110, 116>>
\* "Service fee"
TxtServiceFee == <<83, 101, 114, 118, 105, 99, 101, 32, 102, 101, 101>>
\* "prochee" (Cyrillic; no keyword in it)
TxtProchee == <<1087, 1088, 1086, 1095, 1077, 1077>>
\* "Prodazha" (Cyrillic, capital P)
TxtProdazha == <<1055, 1088, 1086, 1076, 1072, 1078, 1072>>
\* "Service"
TxtService == <<83, 101, 114, 118, 105, 99, 101>>

\* A toLowerCase that folds Latin letters only.
LowerCharLatinOnly(c) == IF c >= 65 /\ c <= 90 THEN c + 32 ELSE c

\* String.prototype.toLowerCase on one code point: Latin A-Z, Cyrillic
\* U+0410..U+042F (+32) and U+0400..U+040F (+80).
LowerChar(c) ==
    IF c >= 65 /\ c <= 90 THEN c + 32
    ELSE IF c >= 1040 /\ c <= 1071 THEN c + 32
    ELSE IF c >= 1024 /\ c <= 1039 THEN c + 80
    ELSE c

toLowerCase(s) == [i \in 1..Len(s) |-> LowerChar(s[i])]

\* String.prototype.includes: kw occurs in s as a contiguous run.
includes(s, kw) ==
    \E i \in 0..(Len(s) - Len(kw)) :
        \A j \in 1..Len(kw) : s[i + j] = kw[j]

includesAny(s, kws) == \E kw \in kws : includes(s, kw)

\* toNumber of lib/format: a number is itself, anything else is 0.
toNumber(v) == IF v.kind = "number" THEN v.n ELSE 0

\* Math.abs
Abs(n) == IF n < 0 THEN -n ELSE n

-----------------------------------------------------------------------------
(* Tier3: the raw-record loop of useFinanceData.queryFn *)

\* The per-record constants the loop body computes first.
accrualsForSale(item) == toNumber(item.accruals_for_sale)
saleCommission(item) == Abs(toNumber(item.sale_commission))
deliveryCharge(item) == Abs(toNumber(item.delivery_charge))
returnDeliveryCharge(item) == Abs(toNumber(item.return_delivery_charge))
amountOf(item) == Abs(toNumber(item.amount))
operationType(item) ==
    IF item.operation_type_name.kind = "null" THEN <<>>
    ELSE toLowerCase(item.operation_type_name.chars)

\* What one record adds to totalSales.
SalesPart(item) ==
    IF accrualsForSale(item) > 0 THEN accrualsForSale(item)
    ELSE IF includesAny(operationType(item), SalesKeywords) THEN amountOf(item)
    ELSE 0

\* What one record adds to totalCommissions.
CommissionsPart(item) ==
    IF saleCommission(item) > 0 THEN saleCommission(item)
    ELSE IF includesAny(operationType(item), CommissionKeywords) THEN amountOf(item)
    ELSE 0

\* What one record adds to totalDelivery.
DeliveryPart(item) ==
    IF deliveryCharge(item) > 0 THEN deliveryCharge(item)
    ELSE IF includesAny(operationType(item), DeliveryKeywords) THEN amountOf(item)
    ELSE 0

\* What one record adds to totalReturns.
ReturnsPart(item) ==
    IF returnDeliveryCharge(item) > 0 THEN returnDeliveryCharge(item)
    ELSE IF includesAny(operationType(item), ReturnKeywords) THEN amountOf(item)
    ELSE 0

\* What one record adds to totalAds.
AdsPart(item) ==
    IF includesAny(operationType(item), AdsKeywords) THEN amountOf(item) ELSE 0

\* What the services block adds to totalServices.
ServicesPart(item) ==
    IF /\ includesAny(operationType(item), ServiceKeywords)
       /\ ~includesAny(operationType(item), ServiceExcludedKeywords)
    THEN amountOf(item)
    ELSE 0

\* What the catch-all adds to totalServices.
CatchAllPart(item) ==
    IF /\ amountOf(item) > 0
       /\ accrualsForSale(item) = 0
       /\ saleCommission(item) = 0
       /\ deliveryCharge(item) = 0
       /\ returnDeliveryCharge(item) = 0
       /\ ~includesAny(operationType(item), CatchAllExcludedKeywords)
    THEN amountOf(item)
    ELSE 0

\* One pass of the loop body: the amounts a record adds to the six totals.
Contribution(item) ==
    [sales       |-> SalesPart(item),
     commissions |-> CommissionsPart(item),
     delivery    |-> DeliveryPart(item),
     returns     |-> ReturnsPart(item),
     ads         |-> AdsPart(item),
     services    |-> ServicesPart(item) + CatchAllPart(item)]

ZeroTotals ==
    [sales |-> 0, commissions |-> 0, delivery |-> 0,
     returns |-> 0, ads |-> 0, services |-> 0]

AddTotals(t, c) ==
    [sales       |-> t.sales + c.sales,
     commissions |-> t.commissions + c.commissions,
     delivery    |-> t.delivery + c.delivery,
     returns     |-> t.returns + c.returns,
     ads         |-> t.ads + c.ads,
     services    |-> t.services + c.services]

\* The six totals after the forEach over the fetched records.
RECURSIVE SumRecords(_)
SumRecords(recs) ==
    IF recs = <<>> THEN ZeroTotals
    ELSE AddTotals(SumRecords(SubSeq(recs, 1, Len(recs) - 1)),
                   Contribution(recs[Len(recs)]))

\* The sample figures substituted when all six totals are zero.
DemoSales == 10000
DemoCommissions == 1500
DemoDelivery == 800
DemoReturns == 200
DemoAds == 300
DemoServices == 500

DemoTotals ==
    [sales |-> DemoSales, commissions |-> DemoCommissions,
     delivery |-> DemoDelivery, returns |-> DemoReturns,
     ads |-> DemoAds, services |-> DemoServices]

AllZero(t) ==
    /\ t.sales = 0 /\ t.commissions = 0 /\ t.delivery = 0
    /\ t.returns = 0 /\ t.ads = 0 /\ t.services = 0

\* A substitution made as soon as there are no sales.
WithDemoWhenNoSales(t) == IF t.sales = 0 THEN DemoTotals ELSE t

\* "Ensure minimum values for demonstration if all categories are zero".
WithDemo(t) == IF AllZero(t) THEN DemoTotals ELSE t

\* data || []  (a response's data is <<>> when it is null)
OrEmpty(resp) == IF resp.hasData THEN resp.data ELSE <<>>

\* The totals the Tier3 summary is built from.
Tier3Totals(recs) == WithDemo(SumRecords(recs))

\* A Tier3 summary whose netProfit leaves the ads and services out.
Tier3SummaryPartialNet(recs) ==
    LET t == Tier3Totals(recs) IN
    [sales         |-> t.sales,
     commissions   |-> t.commissions,
     delivery      |-> t.delivery,
     returns       |-> t.returns,
     ads           |-> t.ads,
     services      |-> t.services,
     totalIncome   |-> t.sales,
     totalExpenses |-> t.commissions + t.delivery + t.returns + t.ads + t.services,
     netProfit     |-> t.sales - (t.commissions + t.delivery + t.returns)]

\* The Tier3 summary object.
Tier3Summary(recs) ==
    LET t == Tier3Totals(recs) IN
    [sales         |-> t.sales,
     commissions   |-> t.commissions,
     delivery      |-> t.delivery,
     returns       |-> t.returns,
     ads           |-> t.ads,
     services      |-> t.services,
     totalIncome   |-> t.sales,
     totalExpenses |-> t.commissions + t.delivery + t.returns + t.ads + t.services,
     netProfit     |-> t.sales - (t.commissions + t.delivery + t.returns
                                  + t.ads + t.services)]

-----------------------------------------------------------------------------
(* The category list of the pie chart *)

\* The keys of CATEGORY_COLORS, in the order Object.entries(summary) meets them.
CategoryKeys == <<"sales", "commissions", "delivery", "returns", "ads", "services">>

\* CATEGORY_LABELS (the Russian labels, transliterated).
CATEGORY_LABELS ==
    [sales |-> "Prodazhi", commissions |-> "Komissii", delivery |-> "Dostavka",
     returns |-> "Vozvraty", ads |-> "Reklama", services |-> "Uslugi"]

CATEGORY_COLORS ==
    [sales |-> "#10b981", commissions |-> "#ef4444", delivery |-> "#f59e0b",
     returns |-> "#8b5cf6", ads |-> "#06b6d4", services |-> "#84cc16"]

\* A percentage that is the quotient for every total other than 0.
PercentageUnlessZero(amount, total) ==
    IF total # 0 THEN [num |-> amount * 100, den |-> total]
    ELSE [num |-> 0, den |-> 1]

\* A percentage is the exact fraction num/den (den > 0) of (amount / total) * 100.
Percentage(amount, total) ==
    IF total > 0 THEN [num |-> amount * 100, den |-> total]
    ELSE [num |-> 0, den |-> 1]

\* The entry pushed for one key of the summary.
CategoryEntry(key, value, total) ==
    LET amount == IF key = "sales" THEN value ELSE Abs(value) IN
    [amount     |-> amount,
     category   |-> CATEGORY_LABELS[key],
     percentage |-> Percentage(amount, total),
     color      |-> CATEGORY_COLORS[key]]

\* The forEach over Object.entries(summary): keys of CATEGORY_COLORS whose
\* value is not 0, in entry order.
RECURSIVE PushCategories(_, _, _)
PushCategories(summary, total, n) ==
    IF n = 0 THEN <<>>
    ELSE LET rest == PushCategories(summary, total, n - 1)
             key == CategoryKeys[n]
         IN IF summary[key] # 0
            THEN Append(rest, CategoryEntry(key, summary[key], total))
            ELSE rest

\* A sort step that puts an entry before the entries of equal amount.
RECURSIVE InsertDescUnstable(_, _)
InsertDescUnstable(sorted, x) ==
    IF sorted = <<>> THEN <<x>>
    ELSE IF sorted[Len(sorted)].amount > x.amount THEN Append(sorted, x)
    ELSE Append(InsertDescUnstable(SubSeq(sorted, 1, Len(sorted) - 1), x),
                sorted[Len(sorted)])

\* Array.prototype.sort((a, b) => b.amount - a.amount): stable, descending.
RECURSIVE InsertDesc(_, _)
InsertDesc(sorted, x) ==
    IF sorted = <<>> THEN <<x>>
    ELSE IF sorted[Len(sorted)].amount >= x.amount THEN Append(sorted, x)
    ELSE Append(InsertDesc(SubSeq(sorted, 1, Len(sorted) - 1), x),
                sorted[Len(sorted)])

RECURSIVE SortByAmountDesc(_)
SortByAmountDesc(cats) ==
    IF cats = <<>> THEN <<>>
    ELSE InsertDesc(SortByAmountDesc(SubSeq(cats, 1, Len(cats) - 1)),
                    cats[Len(cats)])

\* The categories array a summary yields (Tier1 and Tier3 share the code shape).
Categories(summary) ==
    SortByAmountDesc(
        PushCategories(summary, summary.totalIncome + summary.totalExpenses,
                       Len(CategoryKeys)))

\* The value the Tier3 branch returns.
Tier3Result(recs) ==
    LET summary == Tier3Summary(recs) IN
    [summary |-> summary, categories |-> Categories(summary)]

-----------------------------------------------------------------------------
(* Tier1: the dashboard_summary view *)

\* summaryData?.reduce((sum, item) => sum + toNumber(item[field]), 0) || 0
RECURSIVE SumField(_, _)
SumField(rows, field) ==
    IF rows = <<>> THEN 0
    ELSE SumField(SubSeq(rows, 1, Len(rows) - 1), field)
         + toNumber(rows[Len(rows)][field])

\* x * 0.3 and x * 0.7; the view's service costs are multiples of 10, so the
\* products are whole.
TimesThreeTenths(x) == (x * 3) \div 10
TimesSevenTenths(x) == (x * 7) \div 10

\* A Tier1 summary that reports the whole service cost as services.
Tier1SummaryUnsplit(rows) ==
    LET totalRevenue == SumField(rows, "total_revenue")
        totalCommissions == SumField(rows, "total_commission")
        totalServiceCosts == SumField(rows, "total_service_costs")
        totalPayout == SumField(rows, "total_payout")
    IN [sales         |-> totalRevenue,
        commissions   |-> totalCommissions,
        delivery      |-> TimesThreeTenths(totalServiceCosts),
        returns       |-> 0,
        ads           |-> 0,
        services      |-> totalServiceCosts,
        totalIncome   |-> totalRevenue,
        totalExpenses |-> totalCommissions + totalServiceCosts,
        netProfit     |-> totalPayout]

\* A Tier1 summary whose netProfit is computed from income and expenses.
Tier1SummaryComputedNet(rows) ==
    LET totalRevenue == SumField(rows, "total_revenue")
        totalCommissions == SumField(rows, "total_commission")
        totalServiceCosts == SumField(rows, "total_service_costs")
    IN [sales         |-> totalRevenue,
        commissions   |-> totalCommissions,
        delivery      |-> TimesThreeTenths(totalServiceCosts),
        returns       |-> 0,
        ads           |-> 0,
        services      |-> TimesSevenTenths(totalServiceCosts),
        totalIncome   |-> totalRevenue,
        totalExpenses |-> totalCommissions + totalServiceCosts,
        netProfit     |-> totalRevenue - (totalCommissions + totalServiceCosts)]

\* The Tier1 summary object.
Tier1Summary(rows) ==
    LET totalRevenue == SumField(rows, "total_revenue")
        totalCommissions == SumField(rows, "total_commission")
        totalServiceCosts == SumField(rows, "total_service_costs")
        totalPayout == SumField(rows, "total_payout")
    IN [sales         |-> totalRevenue,
        commissions   |-> totalCommissions,
        delivery      |-> TimesThreeTenths(totalServiceCosts),
        returns       |-> 0,
        ads           |-> 0,
        services      |-> TimesSevenTenths(totalServiceCosts),
        totalIncome   |-> totalRevenue,
        totalExpenses |-> totalCommissions + totalServiceCosts,
        netProfit     |-> totalPayout]

\* A Tier1 result that shows the sample figures when the view has no rows.
Tier1ResultDemoWhenEmpty(rows) ==
    IF rows = <<>> THEN Tier3Result(<<>>)
    ELSE LET summary == Tier1Summary(rows) IN
         [summary |-> summary, categories |-> Categories(summary)]

\* The value the Tier1 branch returns.
Tier1Result(rows) ==
    LET summary == Tier1Summary(rows) IN
    [summary |-> summary, categories |-> Categories(summary)]

-----------------------------------------------------------------------------
(* Tier2: the get_finance_summary RPC *)

\* data?.[0] || {}  (a missing field of the row reads as Null)
EmptyRpcRow ==
    [total_sales |-> Null, total_commissions |-> Null, total_delivery |-> Null,
     total_returns |-> Null, total_ads |-> Null, total_services |-> Null,
     total_income |-> Null, total_expenses |-> Null, net_profit |-> Null]

FirstRpcRow(rows) ==
    IF rows = <<>> THEN EmptyRpcRow ELSE rows[1]

\* The Tier2 summary object.
Tier2Summary(rows) ==
    LET result == FirstRpcRow(rows) IN
    [sales         |-> toNumber(result.total_sales),
     commissions   |-> toNumber(result.total_commissions),
     delivery      |-> toNumber(result.total_delivery),
     returns       |-> toNumber(result.total_returns),
     ads           |-> toNumber(result.total_ads),
     services      |-> toNumber(result.total_services),
     totalIncome   |-> toNumber(result.total_income),
     totalExpenses |-> toNumber(result.total_expenses),
     netProfit     |-> toNumber(result.net_profit)]

\* A Tier2 result that builds the category list from its summary as the
\* other tiers do.
Tier2ResultWithCategories(rows) ==
    [summary |-> Tier2Summary(rows), categories |-> Categories(Tier2Summary(rows))]

\* The value the Tier2 branch returns.
Tier2Result(rows) == [summary |-> Tier2Summary(rows), categories |-> <<>>]

-----------------------------------------------------------------------------
(* useFinanceBreakdown: one row per fetched record *)

\* formatMoscowDate(new Date()): the day the query runs.
Today == "2024-12-19"

BreakdownRow(item) ==
    [sales          |-> toNumber(item.accruals_for_sale),
     commissions    |-> Abs(toNumber(item.sale_commission)),
     delivery       |-> Abs(toNumber(item.delivery_charge)),
     returns        |-> Abs(toNumber(item.return_delivery_charge)),
     ads            |-> 0,
     services       |-> Abs(toNumber(item.amount)),
     net_profit     |-> toNumber(item.amount),
     date_msk       |-> IF item.operation_date_msk = Missing THEN Today
                        ELSE item.operation_date_msk,
     posting_number |-> IF item.posting_number = Missing THEN "N/A"
                        ELSE item.posting_number,
     operation_type |-> item.operation_type_name]

\* A projection that emits the rows last record first.
BreakdownRowsReversed(recs) ==
    [i \in 1..Len(recs) |-> BreakdownRow(recs[Len(recs) + 1 - i])]

\* (data || []).map(item => ...)
BreakdownRows(recs) == [i \in 1..Len(recs) |-> BreakdownRow(recs[i])]

-----------------------------------------------------------------------------
(* What the backend can answer *)

SeqsUpTo(S, n) == UNION {[1..k -> S] : k \in 0..n}

\* The errors a backend call can complete with.
Errors == {"unavailable", "network"}

\* A {data, error} response: an error, rows, or neither (data null).
Failure(e) == [hasData |-> FALSE, data |-> <<>>, error |-> e]
Success(d) == [hasData |-> TRUE, data |-> d, error |-> NoError]
NullData == [hasData |-> FALSE, data |-> <<>>, error |-> NoError]
\* An error that arrives together with the rows read before it.
PartialFailure(d, e) == [hasData |-> TRUE, data |-> d, error |-> e]

RawRecord(acc, com, del, ret, amt, op) ==
    [accruals_for_sale |-> acc, sale_commission |-> com,
     delivery_charge |-> del, return_delivery_charge |-> ret,
     amount |-> amt, operation_type_name |-> op]

\* Every combination of the field values below: the one-record fetches.
OperationTypeNames ==
    {NoText} \cup
    {Text(t) : t \in {TxtDostavka, TxtDostavkaTovara, TxtUslugaDostavki,
                      TxtServiceShipping, TxtPayment, TxtServiceFee,
                      TxtProchee, TxtProdazha, TxtService}}

RawRecords ==
    {RawRecord(acc, com, del, ret, amt, op) :
        acc \in {Null, Num(1000), Num(-200)}, com \in {Null, Num(-50)},
        del \in {Null, Num(30)}, ret \in {Null, Num(20)},
        amt \in {Null, Num(80), Num(-40)}, op \in OperationTypeNames}

\* The records the longer fetches are made of.
RecSale == RawRecord(Num(1000), Null, Null, Null, Null, NoText)
RecCommission == RawRecord(Null, Num(-150), Null, Null, Null, NoText)
RecDostavka == RawRecord(Null, Null, Null, Null, Num(80), Text(TxtDostavka))
RecBlank == RawRecord(Null, Null, Null, Null, NotANumber, NoText)
RecReversal == RawRecord(Num(-200), Null, Null, Null, Null, NoText)

SampleRecords == {RecSale, RecCommission, RecDostavka, RecBlank, RecReversal}

Tier3Responses ==
    {Failure(e) : e \in Errors}
    \cup {Success(<<r>>) : r \in RawRecords}
    \cup {Success(recs) : recs \in SeqsUpTo(SampleRecords, MaxRecs)}
    \cup {NullData}

SummaryRow(rev, com, svc, pay) ==
    [total_revenue |-> rev, total_commission |-> com,
     total_service_costs |-> svc, total_payout |-> pay]

SummaryRows ==
    {SummaryRow(Num(1000), Num(100), Num(200), Num(700)),
     SummaryRow(Num(500), Null, Num(50), Num(450)),
     SummaryRow(Num(-2000), Num(0), Num(-100), Num(-1900)),
     SummaryRow(Num(300), Num(-100), Num(0), Num(400)),
     SummaryRow(NotANumber, Num(100), Num(0), Num(0)),
     SummaryRow(Num(0), Num(0), Num(0), Num(0))}

Tier1Responses ==
    {Failure("unavailable")}
    \cup {PartialFailure(<<SummaryRow(Num(1000), Num(100), Num(200), Num(700))>>,
                         "network")}
    \cup {Success(rows) : rows \in SeqsUpTo(SummaryRows, MaxRows)}
    \cup {NullData}

RpcRow(sal, com, del, ret, ads, svc, inc, exp, net) ==
    [total_sales |-> sal, total_commissions |-> com, total_delivery |-> del,
     total_returns |-> ret, total_ads |-> ads, total_services |-> svc,
     total_income |-> inc, total_expenses |-> exp, net_profit |-> net]

RpcRows ==
    {RpcRow(Num(1000), Num(150), Num(80), Num(0), Num(0), Num(0),
            Num(1000), Num(230), Num(770)),
     RpcRow(Num(1000), Num(150), Num(80), Num(20), Num(30), Num(40),
            Num(1200), Num(300), Num(900)),
     RpcRow(Num(500), NotANumber, Null, Num(0), Num(0), Num(0),
            Num(500), Num(0), Num(500)),
     EmptyRpcRow}

Tier2Responses ==
    {Failure("unavailable")}
    \cup {PartialFailure(<<RpcRow(Num(1000), Num(150), Num(80), Num(0), Num(0),
                                  Num(0), Num(1000), Num(230), Num(770))>>,
                         "network")}
    \cup {Success(rows) : rows \in SeqsUpTo(RpcRows, MaxRows)}
    \cup {NullData}

DetailRecord(date, posting, sku, acc, com, del, ret, amt, op) ==
    [accruals_for_sale |-> acc, sale_commission |-> com,
     delivery_charge |-> del, return_delivery_charge |-> ret,
     amount |-> amt, operation_type_name |-> op,
     operation_date_msk |-> date, posting_number |-> posting, item_sku |-> sku]

DetailRecords ==
    {DetailRecord("2024-12-02", "P-1", 101, Num(1000), Num(-150), Num(-30), Null,
                  Num(820), Text(TxtProdazha)),
     DetailRecord("2024-12-03", Missing, 202, Null, Null, Null, Num(-20),
                  Num(-20), Text(TxtDostavka)),
     DetailRecord("2024-11-30", "P-0", 101, Num(400), Null, Null, Null,
                  Num(400), NoText),
     DetailRecord(Missing, "P-3", 101, Null, Null, Null, Null,
                  NotANumber, NoText)}

\* The day count of a 'YYYY-MM-DD' date, the order .gte and .lte compare by.
DayNumber ==
    ("2024-11-30" :> 0) @@ ("2024-12-01" :> 1) @@ ("2024-12-02" :> 2)
    @@ ("2024-12-03" :> 3) @@ ("2024-12-19" :> 19)

\* .gte('operation_date_msk', from).lte('operation_date_msk', to): a row
\* without a date satisfies neither comparison.
InDateRange(date, from, to) ==
    /\ date # Missing
    /\ DayNumber[from] <= DayNumber[date]
    /\ DayNumber[date] <= DayNumber[to]

\* parseInt(filters.sku)
parseInt(sku) == IF sku = "101" THEN 101 ELSE 0

\* The rows the breakdown query selects: the date range is its only condition.
BreakdownQueryMatches(item, f) ==
    InDateRange(item.operation_date_msk, f.dateFrom, f.dateTo)

\* .order('operation_date_msk', { ascending: false })
IsDateDescending(recs) ==
    \A i \in 1..Len(recs) : \A j \in 1..Len(recs) :
        i < j => DayNumber[recs[i].operation_date_msk]
                   >= DayNumber[recs[j].operation_date_msk]

\* What the backend can answer the breakdown query made for the filters f.
BreakdownResponses(f) ==
    {Failure(e) : e \in Errors}
    \cup {Success(recs) :
            recs \in {q \in SeqsUpTo({r \in DetailRecords :
                                          BreakdownQueryMatches(r, f)},
                                     MaxBreakdownRecs) :
                        IsDateDescending(q)}}
    \cup {NullData}

\* The filters of useFilters: a date range and an optional SKU.
FilterValues ==
    [sku : {Missing, "101"},
     dateFrom : {Missing, "2024-12-01"}, dateTo : {Missing, "2024-12-19"}]

-----------------------------------------------------------------------------
(* The two queries as a state machine *)

\* The sortable headers of the regions table.
Columns ==
    {"region", "orders", "units", "gmv", "revenue", "netProfit", "avgOrderValue"}

\* The header clicks followed.
MaxClicks == 3

\* A click handler that sorts ascending whenever the active header is clicked.
handleSortNoToggle(by, order, column) ==
    IF by = column
    THEN [sortBy |-> by, sortOrder |-> "asc"]
    ELSE [sortBy |-> column, sortOrder |-> "desc"]

\* handleSort(column): the (sortBy, sortOrder) pair after the click.
handleSort(by, order, column) ==
    IF by = column
    THEN [sortBy |-> by, sortOrder |-> IF order = "asc" THEN "desc" ELSE "asc"]
    ELSE [sortBy |-> column, sortOrder |-> "desc"]

VARIABLES
    filters,     \* the filters both query keys are built from
    pc,          \* useFinanceData: "idle", the tier awaited, "success", "error"
    calls,       \* useFinanceData: the backend calls issued, in order
    completed,   \* useFinanceData: the responses received, in order
    data,        \* useFinanceData: <<{summary, categories}>> once returned
    error,       \* useFinanceData: the error thrown to the caller, or NoError
    bpc,         \* useFinanceBreakdown: "idle", "fetch", "success", "error"
    bcalls,      \* useFinanceBreakdown: the backend calls issued
    bcompleted,  \* useFinanceBreakdown: the responses received
    bdata,       \* useFinanceBreakdown: <<rows>> once returned
    berror,      \* useFinanceBreakdown: the error thrown to the caller, or NoError
    sortBy,      \* RegionsPage: the column the regions table is sorted by
    sortOrder,   \* RegionsPage: "asc" or "desc"
    sortClicks   \* RegionsPage: the header clicks so far, each with the
                 \* (sortBy, sortOrder) pair it found

financeVars == <<pc, calls, completed, data, error>>
breakdownVars == <<bpc, bcalls, bcompleted, bdata, berror>>
sortVars == <<sortBy, sortOrder, sortClicks>>
vars == <<filters, pc, calls, completed, data, error,
          bpc, bcalls, bcompleted, bdata, berror,
          sortBy, sortOrder, sortClicks>>

\* A query enabled as soon as one bound of the range is set.
EnabledByEitherBound(f) == f.dateFrom # Missing \/ f.dateTo # Missing

\* enabled: !!filters.dateFrom && !!filters.dateTo
Enabled(f) == f.dateFrom # Missing /\ f.dateTo # Missing

\* A Tier1 step that also falls through when the view returns no rows.
Tier1StepEmptyFallsThrough(resp) ==
    IF resp.error # NoError \/ OrEmpty(resp) = <<>>
    THEN [next |-> "tier2"]
    ELSE [next |-> "success", returned |-> Tier1Result(OrEmpty(resp))]

\* if (summaryError) throw summaryError, and the catch around Tier1.
Tier1Step(resp) ==
    IF resp.error # NoError
    THEN [next |-> "tier2"]
    ELSE [next |-> "success", returned |-> Tier1Result(OrEmpty(resp))]

\* A Tier2 step with no catch around it: the RPC error reaches the caller.
Tier2StepUncaught(resp) ==
    IF resp.error # NoError
    THEN [next |-> "error", thrown |-> resp.error]
    ELSE [next |-> "success", returned |-> Tier2Result(OrEmpty(resp))]

\* if (error) throw error, and the catch around Tier2.
Tier2Step(resp) ==
    IF resp.error # NoError
    THEN [next |-> "tier3"]
    ELSE [next |-> "success", returned |-> Tier2Result(OrEmpty(resp))]

\* A Tier3 step that swallows the fetch error and leaves the query pending.
Tier3StepNeverSettles(resp) ==
    IF resp.error # NoError
    THEN [next |-> "pending"]
    ELSE [next |-> "success", returned |-> Tier3Result(OrEmpty(resp))]

\* if (transactionError) throw transactionError: nothing catches it.
Tier3Step(resp) ==
    IF resp.error # NoError
    THEN [next |-> "error", thrown |-> resp.error]
    ELSE [next |-> "success", returned |-> Tier3Result(OrEmpty(resp))]

\* The step each tier takes on each response its call can complete with.
Tier1Outcome == [resp \in Tier1Responses |-> Tier1Step(resp)]

Tier2Outcome == [resp \in Tier2Responses |-> Tier2Step(resp)]

Tier3Outcome == [resp \in Tier3Responses |-> Tier3Step(resp)]

\* A query function that fills the category list of its result from the rows
\* a failed Tier1 call left behind.
ContinueMergingPartial(tier, resp, step) ==
    /\ completed' = Append(completed, [resp |-> resp, tier |-> tier])
    /\ pc' = step.next
    /\ calls' = IF step.next \in {"tier2", "tier3"}
                THEN Append(calls, step.next) ELSE calls
    /\ data' = IF step.next # "success" THEN data
               ELSE IF completed # <<>> /\ completed[1].resp.hasData
               THEN <<[summary |-> step.returned.summary,
                       categories |->
                           Tier1Result(completed[1].resp.data).categories]>>
               ELSE <<step.returned>>
    /\ error' = IF step.next = "error" THEN step.thrown ELSE error
    /\ UNCHANGED <<filters, breakdownVars, sortVars>>

\* The query function after an awaited call has completed with resp.
Continue(tier, resp, step) ==
    /\ completed' = Append(completed, [resp |-> resp, tier |-> tier])
    /\ pc' = step.next
    /\ calls' = IF step.next \in {"tier2", "tier3"}
                THEN Append(calls, step.next) ELSE calls
    /\ data' = IF step.next = "success" THEN <<step.returned>> ELSE data
    /\ error' = IF step.next = "error" THEN step.thrown ELSE error
    /\ UNCHANGED <<filters, breakdownVars, sortVars>>

TypeOK ==
    /\ filters \in FilterValues
    /\ pc \in {"idle", "tier1", "tier2", "tier3", "success", "error"}
    /\ bpc \in {"idle", "fetch", "success", "error"}
    /\ sortBy \in Columns
    /\ sortOrder \in {"asc", "desc"}

Init ==
    /\ filters \in FilterValues
    /\ pc = "idle" /\ calls = <<>> /\ completed = <<>>
    /\ data = <<>> /\ error = NoError
    /\ bpc = "idle" /\ bcalls = <<>> /\ bcompleted = <<>>
    /\ bdata = <<>> /\ berror = NoError
    /\ sortBy = "revenue" /\ sortOrder = "desc" /\ sortClicks = <<>>

\* The user picks the date range or the SKU before the queries have run.
SetFilters ==
    /\ pc = "idle" /\ bpc = "idle"
    /\ \E f \in FilterValues : f # filters /\ filters' = f
    /\ UNCHANGED <<financeVars, breakdownVars, sortVars>>

\* useFinanceData runs its query function: the Tier1 view query is issued.
FinanceStart ==
    /\ pc = "idle"
    /\ Enabled(filters)
    /\ pc' = "tier1"
    /\ calls' = Append(calls, "tier1")
    /\ UNCHANGED <<filters, completed, data, error, breakdownVars, sortVars>>

\* The Tier1 view query completes: a summary is returned, or Tier2 is called.
Tier1Done ==
    /\ pc = "tier1"
    /\ \E resp \in Tier1Responses : Continue("tier1", resp, Tier1Outcome[resp])

\* The Tier2 RPC completes: a summary is returned, or Tier3 is called.
Tier2Done ==
    /\ pc = "tier2"
    /\ \E resp \in Tier2Responses : Continue("tier2", resp, Tier2Outcome[resp])

\* The Tier3 fetch completes: a summary is returned, or its error is thrown.
Tier3Done ==
    /\ pc = "tier3"
    /\ \E resp \in Tier3Responses : Continue("tier3", resp, Tier3Outcome[resp])

\* useFinanceBreakdown runs its query function: the fetch is issued.
BreakdownStart ==
    /\ bpc = "idle"
    /\ Enabled(filters)
    /\ bpc' = "fetch"
    /\ bcalls' = Append(bcalls, "details")
    /\ UNCHANGED <<filters, financeVars, bcompleted, bdata, berror, sortVars>>

\* if (error) throw error; return (data || []).map(...)
BreakdownDone ==
    /\ bpc = "fetch"
    /\ \E resp \in BreakdownResponses(filters) :
        /\ bcompleted' = Append(bcompleted, resp)
        /\ IF resp.error # NoError
           THEN bpc' = "error" /\ berror' = resp.error /\ bdata' = bdata
           ELSE bpc' = "success" /\ bdata' = <<BreakdownRows(OrEmpty(resp))>>
                /\ berror' = berror
    /\ UNCHANGED <<filters, financeVars, bcalls, sortVars>>

\* A header of the regions table is clicked: onClick={() => handleSort(column)}.
ClickHeader ==
    /\ Len(sortClicks) < MaxClicks
    /\ \E column \in Columns :
        LET after == handleSort(sortBy, sortOrder, column) IN
        /\ sortBy' = after.sortBy
        /\ sortOrder' = after.sortOrder
        /\ sortClicks' = Append(sortClicks, [column |-> column,
                                             sortBy |-> sortBy,
                                             sortOrder |-> sortOrder])
    /\ UNCHANGED <<filters, financeVars, breakdownVars>>

Next ==
    \/ SetFilters
    \/ FinanceStart
    \/ Tier1Done
    \/ Tier2Done
    \/ Tier3Done
    \/ BreakdownStart
    \/ BreakdownDone

Spec == Init /\ [][Next]_vars

\* useFinanceData on its own: the steps of the summary query.
FinanceNext ==
    \/ SetFilters
    \/ FinanceStart
    \/ Tier1Done
    \/ Tier2Done
    \/ Tier3Done

\* Every awaited backend call returns: a tier that is awaited completes.
FairSpec ==
    /\ Init
    /\ [][FinanceNext]_vars
    /\ WF_vars(Tier1Done)
    /\ WF_vars(Tier2Done)
    /\ WF_vars(Tier3Done)

\* RegionsPage on its own: the header clicks of the regions table.
SortSpec == Init /\ [][ClickHeader]_vars

-----------------------------------------------------------------------------
(* Properties *)

TierOrder == <<"tier1", "tier2", "tier3">>

IsPrefix(s, t) == Len(s) <= Len(t) /\ \A i \in 1..Len(s) : s[i] = t[i]

Failed(c) == c.resp.error # NoError

\* The run ended at tier n with a result.
SucceededAt(n) == pc = "success" /\ Len(completed) = n

\* The summary and the category list the run returned (pc = "success").
summaryOf == data[1].summary
categoriesOf == data[1].categories

\* The records the Tier3 fetch returned (Len(completed) = 3).
tier3Records == OrEmpty(completed[3].resp)

BucketSum(s) == s.commissions + s.delivery + s.returns + s.ads + s.services

\* C1: the backend calls of a run are a prefix of Tier1, Tier2, Tier3; a tier
\* is called only after the tier before it completed with an error, never
\* after a tier succeeded, never twice, and at most one call is in flight.
C1_TiersInSequence ==
    /\ IsPrefix(calls, TierOrder)
    /\ Len(completed) <= Len(calls)
    /\ Len(calls) <= Len(completed) + 1
    /\ \A i \in 1..Len(completed) : completed[i].tier = calls[i]
    /\ \A i \in 2..Len(calls) : Failed(completed[i - 1])
    /\ \A i \in 1..Len(completed) : ~Failed(completed[i]) => Len(calls) = i

\* Tier3 is in flight, after Tier1 and Tier2 have failed.
C1_Witness == calls = TierOrder /\ Len(completed) = 2 /\ pc = "tier3"

\* C2: a run ends in an error exactly when Tier1, Tier2 and the Tier3 fetch
\* all failed, and the error thrown is then the Tier3 fetch error.
C2_OnlyTier3ErrorSurfaces ==
    /\ pc = "error" <=>
         (Len(completed) = 3 /\ \A i \in 1..3 : Failed(completed[i]))
    /\ pc = "error" => error = completed[3].resp.error
    /\ pc # "error" => error = NoError

\* The run ended in the Tier3 error, which differs from the Tier1 and Tier2 ones.
C2_Witness ==
    /\ pc = "error"
    /\ error = "network"
    /\ completed[1].resp.error = "unavailable"
    /\ completed[2].resp.error = "unavailable"

\* C3: while a bound of the date range is absent, neither query issues a
\* call, returns a result or throws.
C3_NoRangeNoCall ==
    (filters.dateFrom = Missing \/ filters.dateTo = Missing) =>
        /\ pc = "idle" /\ calls = <<>> /\ data = <<>> /\ error = NoError
        /\ bpc = "idle" /\ bcalls = <<>> /\ bdata = <<>> /\ berror = NoError

\* One bound is set and the other is not: both queries stay idle.
C3_Witness ==
    /\ filters.dateFrom # Missing /\ filters.dateTo = Missing
    /\ pc = "idle" /\ bpc = "idle"

\* The buckets a record adds a non-zero amount to.
BucketsHit(item) == {i \in 1..Len(CategoryKeys) : Contribution(item)[CategoryKeys[i]] # 0}

\* C4: every record Tier3 processes adds a non-zero amount to at most one of
\* the six buckets.
C4_OneBucketPerRecord ==
    Len(completed) = 3 =>
        \A i \in 1..Len(tier3Records) :
            Cardinality(BucketsHit(tier3Records[i])) <= 1

\* C5: a record with a non-zero sale_commission and a delivery keyword in its
\* operation type adds |sale_commission| to commissions and nothing to delivery.
C5_CommissionBeforeDeliveryKeyword ==
    Len(completed) = 3 =>
        \A i \in 1..Len(tier3Records) :
            LET item == tier3Records[i] IN
            (/\ toNumber(item.sale_commission) # 0
             /\ includesAny(operationType(item), DeliveryKeywords))
            => /\ Contribution(item).commissions = Abs(toNumber(item.sale_commission))
               /\ Contribution(item).delivery = 0

\* C6: a record with no structured field set whose operation type has a
\* services keyword and a delivery keyword adds |amount| to delivery and
\* nothing to services.
C6_DeliveryBeforeServicesKeyword ==
    Len(completed) = 3 =>
        \A i \in 1..Len(tier3Records) :
            LET item == tier3Records[i] IN
            (/\ toNumber(item.accruals_for_sale) = 0
             /\ toNumber(item.sale_commission) = 0
             /\ toNumber(item.delivery_charge) = 0
             /\ toNumber(item.return_delivery_charge) = 0
             /\ includesAny(operationType(item), ServiceKeywords)
             /\ includesAny(operationType(item), DeliveryKeywords))
            => /\ Contribution(item).delivery = Abs(toNumber(item.amount))
               /\ Contribution(item).services = 0

\* C7: a Tier3 summary has totalIncome = sales, totalExpenses = the sum of the
\* five expense buckets and netProfit = totalIncome - totalExpenses.
C7_Tier3SummaryConsistent ==
    SucceededAt(3) =>
        /\ summaryOf.totalIncome = summaryOf.sales
        /\ summaryOf.totalExpenses = BucketSum(summaryOf)
        /\ summaryOf.netProfit = summaryOf.totalIncome - summaryOf.totalExpenses

\* Tier3 returned a summary with ads or services in it.
C7_Witness ==
    /\ SucceededAt(3)
    /\ tier3Records # <<>>
    /\ summaryOf.services # 0
    /\ summaryOf.sales # 0

\* C8 as stated: every summary of every tier has totalIncome = sales and
\* totalExpenses = the sum of the five expense buckets.
C8_EverySummaryConsistent ==
    pc = "success" =>
        /\ summaryOf.totalIncome = summaryOf.sales
        /\ summaryOf.totalExpenses = BucketSum(summaryOf)

\* C8 amended: the summaries of Tier1 and Tier3 have totalIncome = sales and
\* totalExpenses = the sum of the five expense buckets (for Tier1 in exact
\* arithmetic: the 0.3 and 0.7 parts add up to the service cost); a Tier2
\* summary has the total_income and total_expenses of the first RPC row.
C8_ComputedSummariesConsistent ==
    /\ (SucceededAt(1) \/ SucceededAt(3)) =>
         /\ summaryOf.totalIncome = summaryOf.sales
         /\ summaryOf.totalExpenses = BucketSum(summaryOf)
    /\ SucceededAt(2) =>
         LET row == FirstRpcRow(OrEmpty(completed[2].resp)) IN
         /\ summaryOf.totalIncome = toNumber(row.total_income)
         /\ summaryOf.totalExpenses = toNumber(row.total_expenses)

\* Tier1 returned a summary with the service cost split in it.
C8_Witness == SucceededAt(1) /\ summaryOf.delivery # 0 /\ summaryOf.services # 0

\* C9: a Tier3 fetch of zero records yields an all-zero summary and no
\* categories.
C9_EmptyFetchAllZero ==
    (SucceededAt(3) /\ completed[3].resp.hasData /\ tier3Records = <<>>) =>
        /\ summaryOf.sales = 0 /\ summaryOf.commissions = 0
        /\ summaryOf.delivery = 0 /\ summaryOf.returns = 0
        /\ summaryOf.ads = 0 /\ summaryOf.services = 0
        /\ summaryOf.totalIncome = 0 /\ summaryOf.totalExpenses = 0
        /\ summaryOf.netProfit = 0
        /\ categoriesOf = <<>>

\* p is the percentage num/den.
IsPercentage(p, num, den) == p.num * den = num * p.den

\* C10: the three example records yield sales 1000, commissions 150,
\* delivery 80, expenses 230, net profit 770 and the categories sales,
\* commissions, delivery with 1000/1230, 150/1230 and 80/1230 of 100.
C10_ExampleRecords ==
    (SucceededAt(3) /\ tier3Records = <<RecSale, RecCommission, RecDostavka>>) =>
        /\ summaryOf =
             [sales |-> 1000, commissions |-> 150, delivery |-> 80,
              returns |-> 0, ads |-> 0, services |-> 0,
              totalIncome |-> 1000, totalExpenses |-> 230, netProfit |-> 770]
        /\ Len(categoriesOf) = 3
        /\ categoriesOf[1].category = CATEGORY_LABELS.sales
        /\ categoriesOf[1].amount = 1000
        /\ IsPercentage(categoriesOf[1].percentage, 1000 * 100, 1230)
        /\ categoriesOf[2].category = CATEGORY_LABELS.commissions
        /\ categoriesOf[2].amount = 150
        /\ IsPercentage(categoriesOf[2].percentage, 150 * 100, 1230)
        /\ categoriesOf[3].category = CATEGORY_LABELS.delivery
        /\ categoriesOf[3].amount = 80
        /\ IsPercentage(categoriesOf[3].percentage, 80 * 100, 1230)

\* Tier3 returned for the three example records.
C10_Witness ==
    SucceededAt(3) /\ tier3Records = <<RecSale, RecCommission, RecDostavka>>

\* C11: every entry of a returned category list has an amount above 0.
C11_CategoryAmountsPositive ==
    pc = "success" =>
        \A i \in 1..Len(categoriesOf) : categoriesOf[i].amount > 0

\* The sum of the percentages of a list, as a number of den-ths (the entries
\* of one list are fractions of one denominator).
RECURSIVE PercentageSum(_, _)
PercentageSum(cats, den) ==
    IF cats = <<>> THEN 0
    ELSE PercentageSum(SubSeq(cats, 1, Len(cats) - 1), den)
         + (cats[Len(cats)].percentage.num * den)
            \div cats[Len(cats)].percentage.den

\* C12: in every returned category list each percentage lies in [0, 100] and
\* the percentages sum to at most 100.
C12_PercentagesWithinHundred ==
    (pc = "success" /\ categoriesOf # <<>>) =>
        LET den == categoriesOf[1].percentage.den IN
        /\ \A i \in 1..Len(categoriesOf) :
              LET p == categoriesOf[i].percentage IN
              0 <= p.num /\ p.num <= 100 * p.den
        /\ PercentageSum(categoriesOf, den) <= 100 * den

\* The denominator of the percentages of the returned list.
totalOf == summaryOf.totalIncome + summaryOf.totalExpenses

\* C13 as stated: every percentage is amount / (totalIncome + totalExpenses)
\* * 100 whenever that denominator is not 0 (negative included), and is 0
\* when it is 0.
C13_QuotientUnlessZeroTotal ==
    pc = "success" =>
        \A i \in 1..Len(categoriesOf) :
            LET c == categoriesOf[i] IN
            /\ totalOf # 0 => c.percentage.num = c.amount * 100
                              /\ c.percentage.den = totalOf
            /\ totalOf = 0 => c.percentage.num = 0

\* C13 amended: every percentage is amount / (totalIncome + totalExpenses)
\* * 100 when that denominator is above 0, and is 0 when it is 0 or negative.
C13_QuotientWhenTotalPositive ==
    pc = "success" =>
        \A i \in 1..Len(categoriesOf) :
            LET c == categoriesOf[i] IN
            /\ totalOf > 0 => c.percentage.num = c.amount * 100
                              /\ c.percentage.den = totalOf
            /\ totalOf <= 0 => c.percentage.num = 0

\* A list was returned for a summary whose denominator is negative.
C13_Witness == pc = "success" /\ categoriesOf # <<>> /\ totalOf < 0

\* The position of an entry's bucket in sales, commissions, delivery, returns,
\* ads, services.
KeyIndex(entry) ==
    CHOOSE k \in 1..Len(CategoryKeys) :
        CATEGORY_LABELS[CategoryKeys[k]] = entry.category

\* C14: a returned category list is in non-increasing order of amount, and
\* entries of equal amount are in the order sales, commissions, delivery,
\* returns, ads, services.
C14_SortedWithFixedTieOrder ==
    pc = "success" =>
        \A i \in 1..Len(categoriesOf) : \A j \in 1..Len(categoriesOf) :
            i < j =>
                /\ categoriesOf[i].amount >= categoriesOf[j].amount
                /\ categoriesOf[i].amount = categoriesOf[j].amount
                     => KeyIndex(categoriesOf[i]) < KeyIndex(categoriesOf[j])

\* A list with two entries of equal amount and a smaller one was returned.
C14_Witness ==
    /\ pc = "success"
    /\ \E i \in 1..Len(categoriesOf) : \E j \in 1..Len(categoriesOf) :
          /\ i < j
          /\ categoriesOf[i].amount = categoriesOf[j].amount
          /\ categoriesOf[Len(categoriesOf)].amount < categoriesOf[j].amount

\* C15: a result is a function of the response of the tier that succeeded and
\* of nothing else: a Tier2 result is the Tier2 summary of the RPC response
\* with no categories and a Tier3 result is the summary and the categories of
\* the fetched records, whatever the failed tiers before returned.
C15_ResultFromSucceedingTierOnly ==
    /\ SucceededAt(1) =>
          data = <<Tier1Result(OrEmpty(completed[1].resp))>>
    /\ SucceededAt(2) =>
          data = <<[summary |-> Tier2Summary(OrEmpty(completed[2].resp)),
                    categories |-> <<>>]>>
    /\ SucceededAt(3) =>
          /\ summaryOf = Tier3Summary(tier3Records)
          /\ categoriesOf = Categories(summaryOf)

\* Tier2 returned after a Tier1 call that failed with rows in its response.
C15_Witness ==
    /\ SucceededAt(2)
    /\ completed[1].resp.hasData
    /\ completed[1].resp.error # NoError
    /\ OrEmpty(completed[2].resp) # <<>>

\* The records the breakdown fetch returned (bpc = "success").
breakdownRecords == OrEmpty(bcompleted[1])

\* C16: every breakdown row belongs to a record that satisfies the active
\* filters: its date is inside the date range and, when a SKU filter is set,
\* its SKU is the filter's.
C16_BreakdownRowsMatchFilters ==
    bpc = "success" =>
        /\ Len(bdata[1]) = Len(breakdownRecords)
        /\ \A i \in 1..Len(bdata[1]) :
              LET item == breakdownRecords[i] IN
              /\ InDateRange(item.operation_date_msk,
                             filters.dateFrom, filters.dateTo)
              /\ filters.sku # Missing => item.item_sku = parseInt(filters.sku)

\* The keywords of the six categories.
AllKeywords ==
    SalesKeywords \cup CommissionKeywords \cup DeliveryKeywords
    \cup ReturnKeywords \cup AdsKeywords \cup ServiceKeywords

\* No structured field of the record fired and no keyword matched.
Unclassified(item) ==
    /\ accrualsForSale(item) <= 0
    /\ saleCommission(item) = 0
    /\ deliveryCharge(item) = 0
    /\ returnDeliveryCharge(item) = 0
    /\ ~includesAny(operationType(item), AllKeywords)

\* C17: a Tier3 record with no structured field fired and no keyword matched
\* adds |amount| to services only when its amount is above 0, and adds
\* nothing to any bucket when its amount is zero or negative.
C17_CatchAllOnlyPositiveAmount ==
    Len(completed) = 3 =>
        \A i \in 1..Len(tier3Records) :
            LET item == tier3Records[i] IN
            Unclassified(item) =>
                /\ Contribution(item).services # 0 =>
                      /\ toNumber(item.amount) > 0
                      /\ Contribution(item).services = Abs(toNumber(item.amount))
                /\ toNumber(item.amount) <= 0 => Contribution(item) = ZeroTotals

\* What the structured-field branches add for a record.
StructuredAdded(item) ==
    (IF accrualsForSale(item) > 0 THEN accrualsForSale(item) ELSE 0)
    + saleCommission(item) + deliveryCharge(item) + returnDeliveryCharge(item)

\* What a record adds to the six buckets out of its amount field.
AmountAdded(item) ==
    Contribution(item).sales + BucketSum(Contribution(item))
    - StructuredAdded(item)

\* C18: a Tier3 record's amount is added to the buckets at most once, the
\* catch-all adds it only when no keyword of the six categories matched, and
\* a record matching only a services keyword adds exactly |amount| to services.
C18_AmountAddedAtMostOnce ==
    Len(completed) = 3 =>
        \A i \in 1..Len(tier3Records) :
            LET item == tier3Records[i] IN
            /\ AmountAdded(item) <= amountOf(item)
            /\ CatchAllPart(item) # 0 =>
                  ~includesAny(operationType(item), AllKeywords)
            /\ (/\ includesAny(operationType(item), ServiceKeywords)
                /\ ~includesAny(operationType(item), AllKeywords \ ServiceKeywords))
               => Contribution(item).services = amountOf(item)

\* The six buckets of a summary.
BucketsOf(s) ==
    [sales |-> s.sales, commissions |-> s.commissions, delivery |-> s.delivery,
     returns |-> s.returns, ads |-> s.ads, services |-> s.services]

\* C19: Tier3 returns the demo figures (sales 10000, commissions 1500,
\* delivery 800, returns 200, ads 300, services 500, expenses 3300, net profit
\* 6700) when the six aggregated buckets are all 0, also for records that
\* contribute nothing, and returns the aggregated buckets when one is not 0.
C19_DemoExactlyWhenAllZero ==
    SucceededAt(3) =>
        LET t == SumRecords(tier3Records) IN
        /\ AllZero(t) =>
              summaryOf =
                [sales |-> 10000, commissions |-> 1500, delivery |-> 800,
                 returns |-> 200, ads |-> 300, services |-> 500,
                 totalIncome |-> 10000, totalExpenses |-> 3300,
                 netProfit |-> 6700]
        /\ ~AllZero(t) => BucketsOf(summaryOf) = t

\* Tier3 returned the demo figures for fetched records that contribute nothing.
C19_Witness ==
    /\ SucceededAt(3)
    /\ tier3Records # <<>>
    /\ AllZero(SumRecords(tier3Records))
    /\ summaryOf.sales = 10000

\* The signed sum of accruals_for_sale over the records.
RECURSIVE SignedAccruals(_)
SignedAccruals(recs) ==
    IF recs = <<>> THEN 0
    ELSE SignedAccruals(SubSeq(recs, 1, Len(recs) - 1))
         + toNumber(recs[Len(recs)].accruals_for_sale)

\* C20: the Tier3 sales bucket is the signed sum of accruals_for_sale: a
\* negative accrual lowers summary.sales by its magnitude (records with a
\* sales keyword and the all-zero case aside).
C20_SalesIsSignedSum ==
    (/\ SucceededAt(3)
     /\ ~AllZero(SumRecords(tier3Records))
     /\ \A i \in 1..Len(tier3Records) :
           ~includesAny(operationType(tier3Records[i]), SalesKeywords))
    => summaryOf.sales = SignedAccruals(tier3Records)

\* The rows the Tier1 view returned (Len(completed) >= 1).
tier1Rows == OrEmpty(completed[1].resp)

\* The sum of a column over rows, a non-numeric cell counting as 0.
RECURSIVE ColumnSum(_, _)
ColumnSum(rows, field) ==
    IF rows = <<>> THEN 0
    ELSE (IF Head(rows)[field].kind = "number" THEN Head(rows)[field].n ELSE 0)
         + ColumnSum(Tail(rows), field)

\* C21: a Tier1 summary has sales = totalIncome = the sum of total_revenue,
\* commissions = the sum of total_commission, delivery = 30% and services =
\* 70% of the sum of total_service_costs, returns = ads = 0, totalExpenses =
\* commissions + the sum of total_service_costs and netProfit = the sum of
\* total_payout.
C21_Tier1SummaryFromView ==
    SucceededAt(1) =>
        LET svc == ColumnSum(tier1Rows, "total_service_costs") IN
        /\ summaryOf.sales = ColumnSum(tier1Rows, "total_revenue")
        /\ summaryOf.totalIncome = summaryOf.sales
        /\ summaryOf.commissions = ColumnSum(tier1Rows, "total_commission")
        /\ summaryOf.delivery * 10 = svc * 3
        /\ summaryOf.services * 10 = svc * 7
        /\ summaryOf.delivery + summaryOf.services = svc
        /\ summaryOf.returns = 0 /\ summaryOf.ads = 0
        /\ summaryOf.totalExpenses = summaryOf.commissions + svc
        /\ summaryOf.netProfit = ColumnSum(tier1Rows, "total_payout")

\* Tier1 returned a summary of two rows whose payout is not income - expenses.
C21_Witness ==
    /\ SucceededAt(1)
    /\ Len(tier1Rows) = 2
    /\ summaryOf.delivery # 0
    /\ summaryOf.netProfit # summaryOf.totalIncome - summaryOf.totalExpenses

\* The rows the RPC returned (Len(completed) >= 2).
tier2Rows == OrEmpty(completed[2].resp)

\* The number in a cell, 0 for a null or non-numeric cell.
CellOr0(cell) == IF cell.kind = "number" THEN cell.n ELSE 0

\* C22: a Tier2 summary has the nine fields of the first RPC row, 0 for a
\* missing row or a missing or non-numeric field, and an empty category list.
C22_Tier2PassesFirstRowThrough ==
    SucceededAt(2) =>
        /\ categoriesOf = <<>>
        /\ tier2Rows = <<>> =>
              \A f \in DOMAIN summaryOf : summaryOf[f] = 0
        /\ tier2Rows # <<>> =>
              LET row == tier2Rows[1] IN
              /\ summaryOf.sales = CellOr0(row.total_sales)
              /\ summaryOf.commissions = CellOr0(row.total_commissions)
              /\ summaryOf.delivery = CellOr0(row.total_delivery)
              /\ summaryOf.returns = CellOr0(row.total_returns)
              /\ summaryOf.ads = CellOr0(row.total_ads)
              /\ summaryOf.services = CellOr0(row.total_services)
              /\ summaryOf.totalIncome = CellOr0(row.total_income)
              /\ summaryOf.totalExpenses = CellOr0(row.total_expenses)
              /\ summaryOf.netProfit = CellOr0(row.net_profit)

\* Tier2 returned for two different rows, the first with non-zero totals.
C22_Witness ==
    /\ SucceededAt(2)
    /\ Len(tier2Rows) = 2
    /\ tier2Rows[1] # tier2Rows[2]
    /\ summaryOf.sales # 0
    /\ summaryOf.commissions # 0

\* C23: the breakdown has one row per fetched record, in the fetched order,
\* with sales = accruals_for_sale (signed), commissions, delivery and returns
\* = the magnitudes of sale_commission, delivery_charge and
\* return_delivery_charge, ads = 0 and net_profit = the signed amount (0 when
\* missing), each field read on its own.
C23_OneRowPerRecord ==
    bpc = "success" =>
        /\ Len(bdata[1]) = Len(breakdownRecords)
        /\ \A i \in 1..Len(breakdownRecords) :
              LET item == breakdownRecords[i]
                  row == bdata[1][i]
              IN /\ row.date_msk = item.operation_date_msk
                 /\ row.operation_type = item.operation_type_name
                 /\ row.sales = CellOr0(item.accruals_for_sale)
                 /\ row.commissions = Abs(CellOr0(item.sale_commission))
                 /\ row.delivery = Abs(CellOr0(item.delivery_charge))
                 /\ row.returns = Abs(CellOr0(item.return_delivery_charge))
                 /\ row.ads = 0
                 /\ row.net_profit = CellOr0(item.amount)

\* Two different records were fetched, one of them with several fields set.
C23_Witness ==
    /\ bpc = "success"
    /\ Len(breakdownRecords) = 2
    /\ breakdownRecords[1] # breakdownRecords[2]
    /\ bdata[1][2].sales # 0
    /\ bdata[1][2].commissions # 0
    /\ bdata[1][2].delivery # 0
    /\ bdata[1][1].net_profit < 0

\* The record carries a delivery contribution: a delivery charge or a
\* delivery keyword in its operation type.
DeliveryTagged(item) ==
    \/ deliveryCharge(item) # 0
    \/ includesAny(operationType(item), DeliveryKeywords)

\* C24: a breakdown row has services = |amount| when its record is not
\* delivery-tagged and services = 0 when it is, so no row shows an amount
\* under both delivery and services.
C24_ServicesExcludeDelivery ==
    bpc = "success" =>
        \A i \in 1..Len(breakdownRecords) :
            LET item == breakdownRecords[i]
                row == bdata[1][i]
            IN /\ DeliveryTagged(item) => row.services = 0
               /\ ~DeliveryTagged(item) => row.services = amountOf(item)
               /\ ~(row.delivery # 0 /\ row.services # 0)

\* C25: a run that has issued a call ends with a result or with the Tier3
\* fetch error, and a run whose Tier3 fetch succeeded has ended with a result.
C25_RunTerminates ==
    /\ (pc \in {"tier1", "tier2", "tier3"}) ~> (pc \in {"success", "error"})
    /\ [](Len(completed) = 3 /\ ~Failed(completed[3])
            => pc = "success" /\ Len(data) = 1)

\* The Tier3 fetch returned a record with null and non-numeric fields and the
\* run ended with a result.
C25_Witness ==
    /\ SucceededAt(3)
    /\ tier3Records = <<RecBlank>>
    /\ Len(data) = 1

\* C26: when the Tier1 query succeeds with no rows the run ends there: Tier1
\* is the only call, every field of the summary is 0 and the category list is
\* empty.
C26_EmptyTier1IsSuccess ==
    (Len(completed) >= 1 /\ ~Failed(completed[1]) /\ tier1Rows = <<>>) =>
        /\ pc = "success"
        /\ calls = <<"tier1">>
        /\ Len(completed) = 1
        /\ \A k \in DOMAIN summaryOf : summaryOf[k] = 0
        /\ categoriesOf = <<>>

\* The view answered with an empty array and the run ended at Tier1.
C26_Witness ==
    /\ SucceededAt(1)
    /\ completed[1].resp.hasData
    /\ tier1Rows = <<>>

\* The (sortBy, sortOrder) pair click i found; the pair now for i past the log.
pairAt(i) ==
    IF i <= Len(sortClicks)
    THEN <<sortClicks[i].sortBy, sortClicks[i].sortOrder>>
    ELSE <<sortBy, sortOrder>>

\* C27: the table starts at (revenue, desc); a click on the sorted column
\* keeps sortBy and flips sortOrder between asc and desc; a click on another
\* column makes it sortBy with sortOrder desc; two clicks in a row on the
\* column that was already sorted restore the pair they found.
C27_HeaderClicks ==
    /\ pairAt(1) = <<"revenue", "desc">>
    /\ \A i \in 1..Len(sortClicks) :
        LET column == sortClicks[i].column
            before == pairAt(i)
            after == pairAt(i + 1)
        IN /\ before[2] \in {"asc", "desc"}
           /\ column = before[1] =>
                /\ after[1] = before[1]
                /\ after[2] # before[2]
                /\ after[2] \in {"asc", "desc"}
           /\ column # before[1] => after = <<column, "desc">>
           /\ (/\ i < Len(sortClicks)
               /\ column = before[1]
               /\ sortClicks[i + 1].column = column) => pairAt(i + 2) = before

\* After a click on another column, two clicks on it brought back its
\* descending order.
C27_Witness ==
    /\ Len(sortClicks) = 3
    /\ \A i \in 1..3 : sortClicks[i].column = "orders"
    /\ pairAt(2) = <<"orders", "desc">>
    /\ pairAt(3) = <<"orders", "asc">>
    /\ sortBy = "orders" /\ sortOrder = "desc"

====
